---- MODULE Spec2Model ----
(***************************************************************************)
(* Hidebar (src/Hidebar.py): the chat session of HidebarApp.               *)
(*                                                                         *)
(* The execution contexts modelled:                                        *)
(*   - the Tk main loop (the UI-owning context), which runs the widget     *)
(*     callbacks (send_message, ...) and the callbacks that other threads  *)
(*     handed to root.after(0, ...);                                       *)
(*   - one daemon thread per accepted send_message, running                *)
(*     get_ollama_response;                                                *)
(*   - the daemon thread check_ollama_connection starts at construction,   *)
(*     running load_available_models;                                      *)
(*   - one daemon thread per start_listening, running listen_continuously. *)
(* A step of the model is one step of one context; the steps of a thread   *)
(* are cut where it reads or writes what another context reads or writes.  *)
(* Text is a sequence of one-character strings; a fixed message of the     *)
(* program is a one-element sequence holding the message.                  *)
(***************************************************************************)
EXTENDS Integers, Sequences, FiniteSets, TLC

\* ---------------------------------------------------------------- bounds
MaxStreams == 2      \* accepted send_message calls (threads started)
MaxLines == 2        \* lines the endpoint serves, over all its responses
MaxQueue == 2        \* callbacks pending in the Tk event queue
MaxSelects == 2      \* selections the user makes in the model dropdown
MaxVoices == 2       \* listen_continuously threads running at a time
MaxCount == 6        \* the greatest value consecutive_errors is followed to

Voices == 1..MaxVoices
\* `max_errors = 5`
max_errors == 5

Streams == 1..MaxStreams

\* ------------------------------------------------------------ input data
Whitespace == {" ", "\n", "\t"}

hello == <<"h", "e", "l", "l", "o">>
Hi == <<"H", "i">>
There == <<" ", "t", "h", "e", "r", "e">>

\* what the user may type into the input field before sending
Texts == {<<>>, <<" ">>, hello \o <<" ">>}

\* what response.iter_lines() may do next: yield a line, end, or raise
JsonLines ==
    { [kind |-> "json", content |-> Hi, done |-> FALSE],
      [kind |-> "json", content |-> There, done |-> TRUE],
      [kind |-> "json", content |-> <<>>, done |-> TRUE],
      [kind |-> "json", content |-> <<>>, done |-> FALSE] }
JunkLines ==
    { [kind |-> k, content |-> <<>>, done |-> FALSE] :
        k \in {"blank", "badjson", "badutf8", "badshape"} }
Lines == JsonLines \cup JunkLines

\* no unit at all
NoUnit == [kind |-> "none", content |-> <<>>, done |-> FALSE]

\* the model the program starts with, and another one the endpoint may hold
Llama == "llama3.2:latest"
Mistral == "mistral:latest"
NoModel == "none"

\* what recognize_google may return
ok == <<"o", "k">>
a_ == <<"a", " ">>
RecTexts == {ok, a_, <<" ">>}

\* what a turn of the voice loop may come to: the capture timed out, the
\* audio was not understood, the recognition service failed, something else
\* was raised, or text came back
Outcome(kind, text) == [kind |-> kind, text |-> text]
NoOutcome == Outcome("none", <<>>)

\* what GET /api/tags may answer: a status, and the names of the models
TagsAnswers ==
    { [code |-> "200", models |-> ms] :
        ms \in {<<Llama>>, <<Mistral, Llama>>} }
    \cup { [code |-> "unreachable", models |-> <<>>] }

\* ------------------------------------------------------------- variables
VARIABLES
    input_field,            \* the text of the input widget
    conversation_history,   \* self.conversation_history
    rendered,               \* per stream (0: none), the calls the main loop
                            \* has made on the chat widget and the status label
    uiq,                    \* callbacks given to root.after(0, ...), FIFO
    pc,                     \* where each get_ollama_response thread is
    full_response,          \* the thread's local full_response
    served,                 \* lines the endpoint has served so far
    done_unit,              \* the unit with done true the thread has read
    last_send,              \* the last send_message call: the text it
                            \* found in the input field, and how it ended
    posts,                  \* per stream, the requests.post calls so far
    submitted,              \* per stream, self.model when send_message
                            \* accepted the text
    model,                  \* self.model
    model_var,              \* the variable of the model dropdown
    values,                 \* the values the model dropdown offers
    mpc,                    \* where the load_available_models thread is
    selects,                \* selections made in the model dropdown so far
    is_listening,           \* self.is_listening
    vpc,                    \* where each listen_continuously thread is
    consecutive_errors,     \* the thread's local consecutive_errors
    outcome,                \* what the capture and the recognition of the
                            \* turn of the loop the thread is in came to
    recal,                  \* what became of the recalibration in that turn
    mic,                    \* the thread inside `with self.microphone`
                            \* (0: none)
    beat                    \* flips with each line read past MaxLines

chatVars == <<input_field, conversation_history, rendered, uiq,
              pc, full_response, served, done_unit, last_send,
              posts, submitted>>
modelVars == <<model, model_var, values, mpc, selects>>

voiceVars == <<is_listening, vpc, consecutive_errors, outcome, recal, mic>>

vars == <<chatVars, modelVars, voiceVars, beat>>

\* ------------------------------------------------------- text operations
\* input_field.get("1.0", tk.END): the text of the widget and the newline
\* Tk keeps after it
Get(field) == field \o <<"\n">>

RECURSIVE LStrip(_)
LStrip(t) == IF t # <<>> /\ Head(t) \in Whitespace THEN LStrip(Tail(t)) ELSE t

RECURSIVE RStrip(_)
RStrip(t) ==
    IF t # <<>> /\ t[Len(t)] \in Whitespace
    THEN RStrip(SubSeq(t, 1, Len(t) - 1))
    ELSE t

NoStrip(t) == t
\* str.strip()
Strip(t) == RStrip(LStrip(t))

\* ------------------------------------------------- the Tk callback queue
\* a callback: the function it calls, its argument, and the stream (0: none)
\* whose thread made it
Call(fn, arg, s) == [fn |-> fn, arg |-> arg, s |-> s]

PostFirst(q, calls) == calls \o q
\* root.after(0, f), once per element of calls: Tk runs callbacks due at the
\* same time in the order they were registered
Post(q, calls) == q \o calls

CanPost(n) == Len(uiq) + n <= MaxQueue

\* ------------------------------------------------------------- messages
Thinking == <<"Thinking...">>
Ready == <<"Ready">>
NoResponseMsg == <<"No response received from model">>
TimeoutMsg == <<"Request timed out. The model might be too slow or not responding.">>
UnreachableMsg == <<"Cannot connect to Ollama. Make sure it's running.">>
ExceptionMsg == <<"Error: ", "exception">>
StatusMsg(code) == <<"Error: ", code>>

NoErrorCalls(s, msg) == <<>>
\* the two callbacks every failure branch of get_ollama_response posts
ErrorCalls(s, msg) ==
    << Call("update_status", msg, s), Call("add_message_system", msg, s) >>

\* ------------------------------------------------------------------ Init
Init ==
    /\ input_field = <<>>
    /\ conversation_history = <<>>
    /\ rendered = [s \in 0..MaxStreams |-> <<>>]
    /\ uiq = <<>>
    /\ pc = [s \in Streams |-> "idle"]
    /\ full_response = [s \in Streams |-> <<>>]
    /\ served = 0
    /\ done_unit = [s \in Streams |-> NoUnit]
    /\ last_send = [text |-> <<>>, result |-> "none"]
    /\ posts = [s \in Streams |-> 0]
    /\ submitted = [s \in Streams |-> NoModel]
    /\ model = Llama
    /\ model_var = Llama
    /\ values = <<>>
    /\ mpc = "start"
    /\ selects = 0
    /\ is_listening = FALSE
    /\ vpc = [v \in Voices |-> "idle"]
    /\ consecutive_errors = [v \in Voices |-> 0]
    /\ outcome = [v \in Voices |-> NoOutcome]
    /\ recal = [v \in Voices |-> "none"]
    /\ mic = 0
    /\ beat = FALSE

Started == {s \in Streams : pc[s] # "idle"}
InFlight == {s \in Streams : pc[s] \notin {"idle", "done"}}

\* ------------------------------------------------------ the UI's actions
\* the holder of the microphone: 0 is nobody, v in Voices the thread v, UI
\* the main loop
UI == MaxVoices + 1
\* the main loop is not inside a handler: it can run the next one
UIFree == mic # UI

Restarted(history, turn) == <<turn>>
\* `self.conversation_history.append(turn)`
Extended(history, turn) == Append(history, turn)

\* send_message() with the input widget holding field and the UI having
\* rendered log
SendMessage(field, log) ==
    LET message == Strip(Get(field))
        s == Cardinality(Started) + 1
    IN  IF message = <<>>
        THEN /\ last_send' = [text |-> field, result |-> "Rejected"]
             /\ input_field' = field
             /\ rendered' = log
             /\ UNCHANGED <<conversation_history, pc, submitted>>
        ELSE /\ s \in Streams
             /\ last_send' = [text |-> field, result |-> "Accepted"]
             /\ input_field' = <<>>
             /\ rendered' =
                    [log EXCEPT ![0] =
                        @ \o << Call("add_message_user", message, 0),
                                Call("update_status", Thinking, 0) >>]
             /\ conversation_history' =
                    Extended(conversation_history,
                             [role |-> "user", content |-> message])
             /\ pc' = [pc EXCEPT ![s] = "start"]
             /\ submitted' = [submitted EXCEPT ![s] = model]

\* the user types t and presses the send button (or Enter)
send_message ==
    /\ UIFree
    /\ \E t \in Texts : SendMessage(t, rendered)
    /\ UNCHANGED <<uiq, full_response, served, done_unit, posts, modelVars>>
    /\ UNCHANGED <<voiceVars, beat>>

ForwardsAll(text) == TRUE
\* `if not text or len(text) < 2: return` lets text pass
Forwards(text) == Len(text) >= 2

VoiceCaptured == <<"Voice captured - Sending...">>

\* process_voice_input(arg): the text goes into the input widget and the
\* chat display, and send_message() is called
process_voice_input(arg) ==
    LET text == Strip(arg)
    IN  IF Forwards(text)
        THEN SendMessage(text,
                 [rendered EXCEPT ![0] =
                     @ \o << Call("add_message_user", <<"(mic) ">> \o text, 0),
                             Call("update_status", VoiceCaptured, 0) >>])
        ELSE UNCHANGED <<input_field, conversation_history, rendered, pc,
                         last_send, submitted>>

\* one callback of the queue runs in the Tk main loop; of what the status
\* label shows, only what the streams and send_message write is recorded
RunCallback ==
    /\ UIFree
    /\ uiq # <<>>
    /\ uiq' = Tail(uiq)
    /\ LET c == Head(uiq)
       IN  CASE c.fn = "model_dropdown.config" ->
                  /\ values' = c.arg
                  /\ UNCHANGED <<input_field, conversation_history, rendered,
                                 pc, last_send, submitted, model_var>>
             [] c.fn = "model_var.set" ->
                  /\ model_var' = model
                  /\ UNCHANGED <<input_field, conversation_history, rendered,
                                 pc, last_send, submitted, values>>
             [] c.fn = "process_voice_input" ->
                  /\ process_voice_input(c.arg)
                  /\ UNCHANGED <<model_var, values>>
             [] c.fn = "update_status" /\ c.s = 0 ->
                  UNCHANGED <<input_field, conversation_history, rendered,
                              pc, last_send, submitted, model_var, values>>
             [] OTHER ->
                  /\ rendered' = [rendered EXCEPT ![c.s] = Append(@, c)]
                  /\ UNCHANGED <<input_field, conversation_history, pc,
                                 last_send, submitted, model_var, values>>
    /\ UNCHANGED <<full_response, served, done_unit, posts, model, mpc,
                   selects, voiceVars, beat>>

\* ------------------------------------- the get_ollama_response thread
ThreadRetries(s) ==
    /\ pc' = [pc EXCEPT ![s] = "start"]
    /\ full_response' = [full_response EXCEPT ![s] = <<>>]
    /\ done_unit' = [done_unit EXCEPT ![s] = NoUnit]
\* the thread ends: its locals are gone
ThreadEnds(s) ==
    /\ pc' = [pc EXCEPT ![s] = "done"]
    /\ full_response' = [full_response EXCEPT ![s] = <<>>]
    /\ done_unit' = [done_unit EXCEPT ![s] = NoUnit]

\* an except branch: the two callbacks, and the thread returns
Fails(s, msg) ==
    /\ CanPost(2)
    /\ uiq' = Post(uiq, ErrorCalls(s, msg))
    /\ ThreadEnds(s)
    /\ UNCHANGED <<input_field, conversation_history, rendered, last_send,
                   submitted, modelVars>>

\* the messages of the three except branches
RaisedMsgs == {TimeoutMsg, UnreachableMsg, ExceptionMsg}

\* what iter_lines() raises is no requests.exceptions.Timeout: requests
\* hands a read timeout on as a ConnectionError
BrokenMsgs == {UnreachableMsg, ExceptionMsg}

\* what the endpoint may answer with
StatusCodes == {"200", "500"}

\* the body of the request: the payload dictionary holds the list
\* self.conversation_history itself, so what is sent is what the list holds
\* when requests.post serialises it
Payload == [model |-> model, messages |-> conversation_history, stream |-> TRUE]

\* requests.post(url, json=Payload) raises
RequestFails(s) ==
    /\ pc[s] = "start"
    /\ posts' = [posts EXCEPT ![s] = @ + 1]
    /\ UNCHANGED served
    /\ \E msg \in RaisedMsgs : Fails(s, msg)
    /\ UNCHANGED <<voiceVars, beat>>

\* requests.post(url, json=Payload) returns a response
RequestAnswered(s) ==
    /\ pc[s] = "start"
    /\ posts' = [posts EXCEPT ![s] = @ + 1]
    /\ UNCHANGED served
    /\ \E code \in StatusCodes :
         IF code = "200"
         THEN /\ CanPost(1)
              /\ uiq' = Post(uiq, <<Call("start_streaming_message", <<>>, s)>>)
              /\ pc' = [pc EXCEPT ![s] = "iter"]
              /\ full_response' = [full_response EXCEPT ![s] = <<>>]
              /\ UNCHANGED <<input_field, conversation_history, rendered,
                             done_unit, last_send, submitted, modelVars>>
         ELSE Fails(s, StatusMsg(code))
    /\ UNCHANGED <<voiceVars, beat>>

\* `if line:` is false, or json.loads raises JSONDecodeError
Skipped(line) == line.kind \in {"blank", "badjson"}

\* line.decode raises UnicodeDecodeError, or .get meets a value that is no
\* dict: neither is a JSONDecodeError
Raises(line) == line.kind \in {"badutf8", "badshape"}

Prepend(full, content) == content \o full
\* full_response += content
Accumulate(full, content) == full \o content

NeverStops(line) == FALSE
\* `if json_data.get("done", False): break`
StopsReading(line) == line.done

\* iter_lines() ends: the body holds no further line
BodyEnds(s) ==
    /\ pc[s] = "iter"
    /\ pc' = [pc EXCEPT ![s] = "finish"]
    /\ UNCHANGED <<input_field, conversation_history, rendered, uiq,
                   full_response, served, done_unit, last_send, posts,
                   submitted, modelVars>>
    /\ UNCHANGED <<voiceVars, beat>>

\* iter_lines() raises: the connection broke or stalled
StreamBreaks(s) ==
    /\ pc[s] = "iter"
    /\ UNCHANGED <<served, posts>>
    /\ \E msg \in BrokenMsgs : Fails(s, msg)
    /\ UNCHANGED <<voiceVars, beat>>

\* one turn of the for loop: iter_lines() yields line
ReadLine(s) ==
    /\ pc[s] = "iter"
    /\ served < MaxLines
    /\ served' = served + 1
    /\ UNCHANGED posts
    /\ \E line \in Lines :
         IF Raises(line)
         THEN Fails(s, ExceptionMsg)
         ELSE LET takes == ~Skipped(line) /\ line.content # <<>>
                  stops == ~Skipped(line) /\ StopsReading(line)
              IN  /\ takes => CanPost(1)
                  /\ uiq' = IF takes
                            THEN Post(uiq, <<Call("append_to_streaming",
                                                  line.content, s)>>)
                            ELSE uiq
                  /\ full_response' =
                         [full_response EXCEPT ![s] =
                            IF takes THEN Accumulate(@, line.content) ELSE @]
                  /\ done_unit' = [done_unit EXCEPT ![s] =
                                      IF ~Skipped(line) /\ line.done
                                      THEN line ELSE @]
                  /\ pc' = [pc EXCEPT ![s] = IF stops THEN "finish" ELSE "iter"]
                  /\ UNCHANGED <<input_field, conversation_history,
                                 rendered, last_send, submitted, modelVars>>
    /\ UNCHANGED <<voiceVars, beat>>

\* one more turn of the for loop once the endpoint has served MaxLines
\* lines: the lines it serves from then on carry neither text nor a done
\* flag, so the turn changes nothing the program keeps
ReadOn(s) ==
    /\ pc[s] = "iter"
    /\ served = MaxLines
    /\ beat' = ~beat
    /\ UNCHANGED <<chatVars, modelVars, voiceVars>>

AlwaysHasResponse(full) == TRUE
\* `if full_response:`
HasResponse(full) == full # <<>>

\* after the loop: the assistant turn, or "No response received from model"
Finish(s) ==
    /\ pc[s] = "finish"
    /\ CanPost(2)
    /\ IF HasResponse(full_response[s])
       THEN /\ conversation_history' =
                   Extended(conversation_history,
                            [role |-> "assistant",
                             content |-> full_response[s]])
            /\ uiq' = Post(uiq, << Call("finish_streaming_message", <<>>, s),
                                   Call("update_status", Ready, s) >>)
       ELSE /\ uiq' = Post(uiq, ErrorCalls(s, NoResponseMsg))
            /\ UNCHANGED conversation_history
    /\ ThreadEnds(s)
    /\ UNCHANGED <<input_field, rendered, served, last_send, posts,
                   submitted, modelVars>>
    /\ UNCHANGED <<voiceVars, beat>>

\* ------------------------------------------- the choice of the model
\* what load_available_models() does once GET /api/tags has ended with
\* answer, self.model being m: the value it leaves in self.model and the
\* callbacks it posts
StatusOf(answer) ==
    CASE answer.code = "unreachable" ->
           <<"Cannot connect to Ollama. Make sure it's running on localhost:11434">>
      [] answer.code # "200" -> <<"Ollama returned an error">>
      [] answer.models = <<>> -> <<"No models found. Please pull a model first.">>
      [] OTHER -> <<"Connected to Ollama">>

Listed(answer) == answer.code = "200" /\ answer.models # <<>>
InList(m, ms) == \E i \in 1..Len(ms) : ms[i] = m

\* `if self.model not in models and models: self.model = models[0]`
LoadedModel(m, answer) ==
    IF Listed(answer) /\ ~InList(m, answer.models)
    THEN answer.models[1]
    ELSE m

LoadedCalls(m, answer) ==
    (IF Listed(answer)
     THEN <<Call("model_dropdown.config", answer.models, 0)>>
     ELSE <<>>)
    \o (IF Listed(answer) /\ ~InList(m, answer.models)
        THEN <<Call("model_var.set", <<>>, 0)>>
        ELSE <<>>)
    \o <<Call("update_status", StatusOf(answer), 0)>>

\* a handler that posts more callbacks than the bound of the queue runs when
\* the queue is empty
CanPostAll(calls) == uiq = <<>> \/ CanPost(Len(calls))

\* the thread check_ollama_connection started: load_available_models()
load_available_models ==
    /\ mpc = "start"
    /\ \E answer \in TagsAnswers :
         /\ CanPostAll(LoadedCalls(model, answer))
         /\ model' = LoadedModel(model, answer)
         /\ uiq' = Post(uiq, LoadedCalls(model, answer))
    /\ mpc' = "done"
    /\ UNCHANGED <<input_field, conversation_history, rendered, pc,
                   full_response, served, done_unit, last_send, posts,
                   submitted, model_var, values, selects>>
    /\ UNCHANGED <<voiceVars, beat>>

\* the user picks identifier in the dropdown, which is read-only: the widget
\* sets its variable and calls on_model_change, which writes the status
\* label and calls load_available_models() itself
on_model_change ==
    /\ UIFree
    /\ selects < MaxSelects
    /\ selects' = selects + 1
    /\ \E i \in 1..Len(values), answer \in TagsAnswers :
         LET identifier == values[i]
         IN  /\ CanPostAll(LoadedCalls(identifier, answer))
             /\ model_var' = identifier
             /\ model' = LoadedModel(identifier, answer)
             /\ uiq' = Post(uiq, LoadedCalls(identifier, answer))
    /\ UNCHANGED <<input_field, conversation_history, rendered, pc,
                   full_response, served, done_unit, last_send, posts,
                   submitted, values, mpc>>
    /\ UNCHANGED <<voiceVars, beat>>

\* ------------------------------------------------------ the voice loop
Processing == <<"Processing speech...">>
SpeakLouder == <<"Listening... (speak louder or clearer)">>
CheckInternet == <<"Listening... (check internet connection)">>
RecalibratedMsg == <<"Recalibrated - Listening...">>
\* the two callbacks read the thread's local error_msg when they run
ApiErrorMsg == <<"Speech API error: ", "error_msg">>
ErrorMsg == <<"Error: ", "error_msg">>

Status(msg) == Call("update_status", msg, 0)

VoiceRunning == {v \in Voices : vpc[v] # "idle"}

chatState == <<input_field, conversation_history, rendered, pc,
               full_response, served, done_unit, last_send, posts, submitted>>

\* `threading.Thread(target=self.listen_continuously, ...).start()`: the
\* thread takes the first slot that is free
StartThread ==
    \E v \in Voices \ VoiceRunning :
        /\ \A w \in Voices \ VoiceRunning : v <= w
        /\ vpc' = [vpc EXCEPT ![v] = "check"]

\* toggle_voice_listening() with is_listening false: start_listening(). The
\* recognizer and the microphone exist (setup_voice succeeded). The handler
\* sets the flag and enters the microphone itself to recalibrate: the main
\* loop then sits in adjust_for_ambient_noise(duration=0.8) holding the
\* microphone while the threads run. When a thread holds the microphone the
\* `with` raises, `except: pass` drops it and the thread starts at once
start_listening ==
    /\ UIFree
    /\ ~is_listening
    /\ Cardinality(VoiceRunning) < MaxVoices
    /\ is_listening' = TRUE
    /\ IF mic = 0
       THEN mic' = UI /\ UNCHANGED vpc
       ELSE StartThread /\ UNCHANGED mic
    /\ UNCHANGED <<chatState, uiq, modelVars, consecutive_errors, outcome,
                   recal, beat>>

\* adjust_for_ambient_noise returns in the main loop: the `with` gives the
\* microphone back and start_listening starts the thread
Calibrated ==
    /\ mic = UI
    /\ mic' = 0
    /\ StartThread
    /\ UNCHANGED <<chatState, uiq, modelVars, is_listening,
                   consecutive_errors, outcome, recal, beat>>

\* toggle_voice_listening() with is_listening true: stop_listening()
stop_listening ==
    /\ UIFree
    /\ is_listening
    /\ is_listening' = FALSE
    /\ UNCHANGED <<chatState, uiq, modelVars, vpc, consecutive_errors,
                   outcome, recal, mic, beat>>

\* listen_continuously returns: its locals are gone
VoiceEnds(v) ==
    /\ vpc' = [vpc EXCEPT ![v] = "idle"]
    /\ consecutive_errors' = [consecutive_errors EXCEPT ![v] = 0]
    /\ outcome' = [outcome EXCEPT ![v] = NoOutcome]
    /\ recal' = [recal EXCEPT ![v] = "none"]

AlwaysContinues(listening) == TRUE
\* the test of `while self.is_listening:`
Continues(listening) == listening

\* `while self.is_listening:`: the next turn of the loop, or the end
LoopCheck(v) ==
    /\ vpc[v] = "check"
    /\ IF Continues(is_listening)
       THEN /\ vpc' = [vpc EXCEPT ![v] = "enter"]
            /\ outcome' = [outcome EXCEPT ![v] = NoOutcome]
            /\ recal' = [recal EXCEPT ![v] = "none"]
            /\ UNCHANGED consecutive_errors
       ELSE VoiceEnds(v)
    /\ UNCHANGED <<chatState, uiq, modelVars, is_listening, mic, beat>>

\* adjust_for_ambient_noise returned: `consecutive_errors = 0`
Resets(r) == r = "ok"

\* `consecutive_errors += 1`, followed up to MaxCount: the code reads the
\* counter in `consecutive_errors >= max_errors` only, so that all the
\* values from max_errors on behave alike
Incremented(n) == IF n < MaxCount THEN n + 1 ELSE MaxCount

\* `except Exception as e:`, the microphone being free or not when the
\* handler comes to recalibrate
Caught(v, free) ==
    IF is_listening
    THEN LET n == Incremented(consecutive_errors[v])
         IN  /\ vpc' = [vpc EXCEPT ![v] = "backoff"]
             /\ outcome' = [outcome EXCEPT ![v] = Outcome("error", <<>>)]
             /\ IF n >= max_errors
                THEN \E r \in (IF free THEN {"ok", "failed"} ELSE {"failed"}) :
                       /\ recal' = [recal EXCEPT ![v] = r]
                       /\ IF Resets(r)
                          THEN /\ consecutive_errors' =
                                      [consecutive_errors EXCEPT ![v] = 0]
                               /\ CanPost(2)
                               /\ uiq' = Post(uiq, << Status(ErrorMsg),
                                                      Status(RecalibratedMsg) >>)
                          ELSE /\ consecutive_errors' =
                                      [consecutive_errors EXCEPT ![v] = n]
                               /\ CanPost(1)
                               /\ uiq' = Post(uiq, <<Status(ErrorMsg)>>)
                ELSE /\ consecutive_errors' =
                            [consecutive_errors EXCEPT ![v] = n]
                     /\ CanPost(1)
                     /\ uiq' = Post(uiq, <<Status(ErrorMsg)>>)
                     /\ UNCHANGED recal
    ELSE /\ VoiceEnds(v)
         /\ UNCHANGED uiq

\* `with self.microphone as source:`: the microphone refuses a second
\* context while it is inside one (AssertionError)
Enter(v) ==
    /\ vpc[v] = "enter"
    /\ IF mic = 0
       THEN /\ mic' = v
            /\ vpc' = [vpc EXCEPT ![v] = "listen"]
            /\ UNCHANGED <<uiq, consecutive_errors, outcome, recal>>
       ELSE /\ UNCHANGED mic
            /\ Caught(v, FALSE)
    /\ UNCHANGED <<chatState, modelVars, is_listening, beat>>

Break == "idle"
\* `continue`: the thread goes to the test of the while
Continue == "check"

\* recognizer.listen raises WaitTimeoutError: `continue`
CaptureTimeout(v) ==
    /\ vpc[v] = "listen"
    /\ mic' = 0
    /\ vpc' = [vpc EXCEPT ![v] = Continue]
    /\ outcome' = [outcome EXCEPT ![v] = Outcome("timeout", <<>>)]
    /\ UNCHANGED <<chatState, uiq, modelVars, is_listening,
                   consecutive_errors, recal, beat>>

\* recognizer.listen returns the audio
Captured(v) ==
    /\ vpc[v] = "listen"
    /\ mic' = 0
    /\ CanPost(1)
    /\ uiq' = Post(uiq, <<Status(Processing)>>)
    /\ vpc' = [vpc EXCEPT ![v] = "recog"]
    /\ UNCHANGED <<chatState, modelVars, is_listening, consecutive_errors,
                   outcome, recal, beat>>

\* recognizer.listen or recognize_google raises something else
OtherError(v) ==
    /\ vpc[v] \in {"listen", "recog"}
    /\ mic' = IF vpc[v] = "listen" THEN 0 ELSE mic
    /\ Caught(v, mic' = 0)
    /\ UNCHANGED <<chatState, modelVars, is_listening, beat>>

\* the process_voice_input callbacks waiting in the queue whose text will
\* reach send_message
Waiting ==
    Len(SelectSeq(uiq, LAMBDA c : /\ c.fn = "process_voice_input"
                                  /\ Forwards(Strip(c.arg))))

AnyText(text) == TRUE
\* `if text and len(text.strip()) > 0:`
HasText(text) == Strip(text) # <<>>

\* recognize_google returns text
Recognized(v) ==
    /\ vpc[v] = "recog"
    /\ \E text \in RecTexts :
         /\ outcome' = [outcome EXCEPT ![v] = Outcome("text", text)]
         /\ IF HasText(text)
            THEN /\ Forwards(Strip(text))
                      => Cardinality(Started) + Waiting < MaxStreams
                 /\ consecutive_errors' =
                        [consecutive_errors EXCEPT ![v] = 0]
                 /\ CanPost(1)
                 /\ uiq' = Post(uiq, <<Call("process_voice_input", text, 0)>>)
                 /\ vpc' = [vpc EXCEPT ![v] = "backoff"]
            ELSE /\ vpc' = [vpc EXCEPT ![v] = "check"]
                 /\ UNCHANGED <<uiq, consecutive_errors>>
    /\ UNCHANGED <<chatState, modelVars, is_listening, recal, mic, beat>>

AlwaysHints(n) == <<Status(SpeakLouder)>>
\* the callbacks of the `except sr.UnknownValueError` branch, the counter
\* having come to n
UnintelligibleCalls(n) ==
    IF n >= max_errors THEN <<Status(SpeakLouder)>> ELSE <<>>

\* recognize_google raises UnknownValueError
Unintelligible(v) ==
    /\ vpc[v] = "recog"
    /\ LET n == consecutive_errors[v] + 1
       IN  /\ CanPost(Len(UnintelligibleCalls(n)))
           /\ uiq' = Post(uiq, UnintelligibleCalls(n))
           /\ consecutive_errors' =
                  [consecutive_errors EXCEPT ![v] =
                      IF n >= max_errors THEN 0 ELSE n]
    /\ vpc' = [vpc EXCEPT ![v] = Continue]
    /\ outcome' = [outcome EXCEPT ![v] = Outcome("unintelligible", <<>>)]
    /\ UNCHANGED <<chatState, modelVars, is_listening, recal, mic, beat>>

NoHint(n) == <<Status(ApiErrorMsg)>>
\* the callbacks of the `except sr.RequestError` branch, the counter having
\* come to n
ServiceCalls(n) ==
    <<Status(ApiErrorMsg)>>
    \o (IF n >= max_errors THEN <<Status(CheckInternet)>> ELSE <<>>)

\* recognize_google raises RequestError
ServiceError(v) ==
    /\ vpc[v] = "recog"
    /\ LET n == consecutive_errors[v] + 1
       IN  /\ CanPost(Len(ServiceCalls(n)))
           /\ uiq' = Post(uiq, ServiceCalls(n))
           /\ consecutive_errors' =
                  [consecutive_errors EXCEPT ![v] =
                      IF n >= max_errors THEN 0 ELSE n]
    /\ vpc' = [vpc EXCEPT ![v] = "backoff"]
    /\ outcome' = [outcome EXCEPT ![v] = Outcome("service", <<>>)]
    /\ UNCHANGED <<chatState, modelVars, is_listening, recal, mic, beat>>

\* time.sleep(...) returns
Wake(v) ==
    /\ vpc[v] = "backoff"
    /\ vpc' = [vpc EXCEPT ![v] = "check"]
    /\ UNCHANGED <<chatState, uiq, modelVars, is_listening,
                   consecutive_errors, outcome, recal, mic, beat>>

\* a step of the listen_continuously thread v
VoiceStep(v) ==
    \/ LoopCheck(v)
    \/ Enter(v)
    \/ CaptureTimeout(v)
    \/ Captured(v)
    \/ OtherError(v)
    \/ Recognized(v)
    \/ Unintelligible(v)
    \/ ServiceError(v)
    \/ Wake(v)

\* ------------------------------------------------------------------ Next
Next ==
    \/ send_message
    \/ RunCallback
    \/ \E s \in Streams : RequestFails(s)
    \/ \E s \in Streams : RequestAnswered(s)
    \/ \E s \in Streams : BodyEnds(s)
    \/ \E s \in Streams : StreamBreaks(s)
    \/ \E s \in Streams : ReadLine(s)
    \/ \E s \in Streams : Finish(s)

Spec == Init /\ [][Next]_vars

\* a step of the get_ollama_response thread of stream s
StreamStep(s) ==
    \/ RequestFails(s)
    \/ RequestAnswered(s)
    \/ BodyEnds(s)
    \/ StreamBreaks(s)
    \/ ReadLine(s)
    \/ ReadOn(s)
    \/ Finish(s)

\* the chat with an endpoint that may go on serving lines for ever
NextLive == Next \/ \E s \in Streams : ReadOn(s)

\* the main loop runs the callbacks it is given, and a thread that can take
\* a step takes one: its reads end within the timeout of requests.post
SpecLive ==
    /\ Init
    /\ [][NextLive]_vars
    /\ WF_vars(RunCallback)
    /\ \A s \in Streams : WF_vars(StreamStep(s))

\* the choice of the model and the requests the endpoint answers: what the
\* threads do with the bodies of the responses is left out
NextModel ==
    \/ send_message
    \/ RunCallback
    \/ load_available_models
    \/ on_model_change
    \/ \E s \in Streams : RequestAnswered(s)

SpecModel == Init /\ [][NextModel]_vars

\* start_listening() once the loop started before has ended
StartAlone == VoiceRunning = {} /\ start_listening

\* one voice loop at a time: the text reaches send_message through
\* process_voice_input
NextVoice ==
    \/ StartAlone
    \/ Calibrated
    \/ stop_listening
    \/ RunCallback
    \/ \E v \in Voices : LoopCheck(v)
    \/ \E v \in Voices : Enter(v)
    \/ \E v \in Voices : CaptureTimeout(v)
    \/ \E v \in Voices : Captured(v)
    \/ \E v \in Voices : OtherError(v)
    \/ \E v \in Voices : Recognized(v)
    \/ \E v \in Voices : Unintelligible(v)
    \/ \E v \in Voices : ServiceError(v)
    \/ \E v \in Voices : Wake(v)

SpecVoice == Init /\ [][NextVoice]_vars

\* the voice loops when the user starts and stops as they like: a thread
\* started before may still run when the next one starts
NextVoices ==
    \/ start_listening
    \/ Calibrated
    \/ stop_listening
    \/ RunCallback
    \/ \E v \in Voices : VoiceStep(v)

SpecVoices == Init /\ [][NextVoices]_vars

\* the main loop runs the callbacks it is given, and a thread that can take
\* a step takes one: listen() ends within timeout and phrase_time_limit,
\* adjust_for_ambient_noise within its duration, the sleeps end, and
\* recognize_google is taken to return or raise
SpecVoiceLive ==
    /\ Init
    /\ [][NextVoice]_vars
    /\ WF_vars(RunCallback)
    /\ WF_vars(Calibrated)
    /\ \A v \in Voices : WF_vars(VoiceStep(v))

\* ============================================================ properties
\* the callbacks stream s has posted, in the order the main loop runs them:
\* those already run, then those of the queue
CallsOf(s) == rendered[s] \o SelectSeq(uiq, LAMBDA c : c.s = s)

RECURSIVE TokenText(_)
\* the texts of the append_to_streaming calls of calls, concatenated
TokenText(calls) ==
    IF calls = <<>> THEN <<>>
    ELSE (IF Head(calls).fn = "append_to_streaming" THEN Head(calls).arg
          ELSE <<>>) \o TokenText(Tail(calls))

Fns(calls) == [i \in 1..Len(calls) |-> calls[i].fn]
Has(calls, fn) == \E i \in 1..Len(calls) : calls[i].fn = fn
IsBlank(t) == \A i \in 1..Len(t) : t[i] \in Whitespace
IsSuffix(x, y) ==
    Len(x) <= Len(y) /\ SubSeq(y, Len(y) - Len(x) + 1, Len(y)) = x

\* this step is a call of send_message
SendStep == last_send' # last_send \/ Started' # Started
\* this step is a step of the thread of stream s
ThreadStep(s) ==
    /\ pc[s] # "idle"
    /\ \/ pc'[s] # pc[s]
       \/ full_response'[s] # full_response[s]
       \/ served' # served
\* this step ends the thread of stream s in an except branch or in the
\* branch of a status that is not 200
FailureStep(s) == pc[s] \in {"start", "iter"} /\ pc'[s] = "done"
\* this step is the code after the loop, for stream s
FinishStep(s) == pc[s] = "finish" /\ pc'[s] = "done"

UserTurn(text) == [role |-> "user", content |-> text]
AssistantTurn(text) == [role |-> "assistant", content |-> text]

\* C1: a send_message call made while a stream is in flight is rejected: it
\* appends no turn and starts no second request.
C1_RejectedWhileInFlight ==
    [][ (InFlight # {} /\ SendStep)
        => /\ last_send'.result = "Rejected"
           /\ conversation_history' = conversation_history
           /\ Started' = Started ]_vars

\* C2: at most one streaming request is open at any time.
OpenRequests == {s \in Streams : pc[s] = "iter"}
C2_AtMostOneInFlight == Cardinality(OpenRequests) <= 1

\* C3: when a stream ends with non-empty text, the texts of its
\* append_to_streaming calls, concatenated in the order the main loop runs
\* them, are the full text; that text is the content of the one assistant
\* turn the step appends, and the step posts finish_streaming_message.
C3_TokensMakeFullText ==
    [][ \A s \in Streams :
          (FinishStep(s) /\ full_response[s] # <<>>)
          => /\ TokenText(CallsOf(s)) = full_response[s]
             /\ conversation_history' =
                    Append(conversation_history,
                           AssistantTurn(TokenText(CallsOf(s))))
             /\ CallsOf(s)' = CallsOf(s) \o
                    << Call("finish_streaming_message", <<>>, s),
                       Call("update_status", Ready, s) >> ]_vars
C3_Witness ==
    \E s \in Streams :
        /\ pc[s] = "done"
        /\ Has(CallsOf(s), "finish_streaming_message")
        /\ TokenText(CallsOf(s)) = Hi \o There
        /\ \E i \in 1..Len(conversation_history) :
               conversation_history[i] = AssistantTurn(Hi \o There)

\* C4: a failed request (timeout, connection failure, status other than
\* 200, at the start or in the middle of the body) is reported by the two
\* failure callbacks, leaves the history as it is, drops the text
\* accumulated so far and ends the thread; and send_message rejects blank
\* text only, so the next text is accepted.
FailureMsgs == RaisedMsgs \cup {StatusMsg(code) : code \in StatusCodes \ {"200"}}
C4_FailureLeavesHistory ==
    [][ /\ \A s \in Streams :
             FailureStep(s)
             => /\ \E msg \in FailureMsgs :
                      uiq' = uiq \o << Call("update_status", msg, s),
                                       Call("add_message_system", msg, s) >>
                /\ conversation_history' = conversation_history
                /\ full_response'[s] = <<>>
                /\ s \notin InFlight'
        /\ (SendStep /\ last_send'.result = "Rejected")
             => IsBlank(last_send'.text) ]_vars
C4_Witness ==
    /\ pc[1] = "done"
    /\ Fns(rendered[1]) = << "start_streaming_message", "append_to_streaming",
                             "update_status", "add_message_system" >>
    /\ rendered[1][3].arg = UnreachableMsg
    /\ pc[2] = "start"
    /\ conversation_history = << UserTurn(hello), UserTurn(hello) >>

\* C5: when a stream ends with no text, the step posts the two callbacks
\* that report "No response received from model", no
\* finish_streaming_message, and leaves the history as it is.
C5_EmptyResponse ==
    [][ \A s \in Streams :
          (FinishStep(s) /\ full_response[s] = <<>>)
          => /\ uiq' = uiq \o ErrorCalls(s, NoResponseMsg)
             /\ ~Has(CallsOf(s)', "finish_streaming_message")
             /\ conversation_history' = conversation_history ]_vars
C5_Witness ==
    \E s \in Streams :
        /\ pc[s] = "done"
        /\ Fns(rendered[s]) = << "start_streaming_message", "update_status",
                                 "add_message_system" >>
        /\ rendered[s][3].arg = NoResponseMsg
        /\ Len(conversation_history) = 1

\* C6: reading a line never ends the stream: a line that cannot be decoded
\* is skipped and the loop goes on.
C6_MalformedLineSkipped ==
    [][ \A s \in Streams :
          (pc[s] = "iter" /\ served' = served + 1)
          => pc'[s] \in {"iter", "finish"} ]_vars

\* C7: send_message on blank text is rejected: no turn, no thread, no
\* callback, nothing rendered.
C7_BlankRejected ==
    [][ (SendStep /\ IsBlank(last_send'.text))
        => /\ last_send'.result = "Rejected"
           /\ UNCHANGED <<conversation_history, pc, uiq, rendered>> ]_vars
C7_Witness ==
    /\ last_send = [text |-> <<" ">>, result |-> "Rejected"]
    /\ conversation_history = <<>>
    /\ Started = {}

\* C8: the main loop runs the callbacks of a stream in protocol order:
\* start_streaming_message first and once, nothing of the stream after its
\* terminal callbacks, and the append_to_streaming calls in the order the
\* fragments were received.
InProtocolOrder(calls) ==
    LET n == Len(calls)
    IN  \A i \in 1..n :
          /\ calls[i].fn = "start_streaming_message" => i = 1
          /\ calls[i].fn = "append_to_streaming"
               => calls[1].fn = "start_streaming_message"
          /\ calls[i].fn = "finish_streaming_message"
               => /\ calls[1].fn = "start_streaming_message"
                  /\ i + 1 = n
                  /\ calls[n].fn = "update_status"
          /\ calls[i].fn = "add_message_system"
               => /\ i = n
                  /\ i > 1
                  /\ calls[i - 1].fn = "update_status"
                  /\ calls[i - 1].arg = calls[i].arg
          /\ calls[i].fn = "update_status"
               => \/ i = n /\ i > 1
                       /\ calls[i - 1].fn = "finish_streaming_message"
                  \/ i + 1 = n /\ calls[n].fn = "add_message_system"
C8_ProtocolOrder ==
    \A s \in Streams :
        /\ InProtocolOrder(CallsOf(s))
        /\ pc[s] \in {"iter", "finish"}
             => TokenText(CallsOf(s)) = full_response[s]
C8_Witness ==
    /\ rendered[1] = << Call("start_streaming_message", <<>>, 1),
                        Call("append_to_streaming", Hi, 1),
                        Call("append_to_streaming", There, 1),
                        Call("finish_streaming_message", <<>>, 1),
                        Call("update_status", Ready, 1) >>
    /\ conversation_history = << UserTurn(hello), AssistantTurn(Hi \o There) >>

\* C9: once a unit with done true is read, the thread is out of the loop:
\* the unit's fragment is the end of the accumulated text, and from then on
\* neither the text nor the stream's append_to_streaming calls change.
C9_StopsAtDone ==
    \A s \in Streams :
        done_unit[s] # NoUnit
        => /\ pc[s] = "finish"
           /\ IsSuffix(done_unit[s].content, full_response[s])
           /\ TokenText(CallsOf(s)) = full_response[s]
C9_Witness ==
    \E s \in Streams :
        /\ done_unit[s].content = There
        /\ pc[s] = "finish"
        /\ full_response[s] = Hi \o There
        /\ served = 2

\* C10: a thread that is not the main loop never writes the conversation
\* history.
C10_OnlyUIWritesHistory ==
    [][ (\E s \in Streams : ThreadStep(s))
        => conversation_history' = conversation_history ]_vars

\* this step is a requests.post call of the thread of stream s
PostStep(s) == posts'[s] = posts[s] + 1
\* this step is a call of on_model_change
SelectStep == selects' = selects + 1

\* C11: the request of a submission carries the model that was self.model
\* when send_message accepted the text, whatever was selected since.
C11_RequestCarriesModelAtSubmit ==
    [][ \A s \in Streams : PostStep(s) => Payload.model = submitted[s] ]_vars

\* C12: when on_model_change returns, self.model is the identifier that was
\* picked (the dropdown's variable) and the history is as it was.
C12_SelectSetsModel ==
    [][ SelectStep
        => /\ model' = model_var'
           /\ conversation_history' = conversation_history ]_vars

\* C13: a thread posts once: none before it has run, one from then on,
\* however it ends; an accepted send_message starts one thread and a
\* rejected one starts none, and neither sends anything itself.
C13_OneRequestEach ==
    /\ [](\A s \in Streams :
            posts[s] = IF pc[s] \in {"idle", "start"} THEN 0 ELSE 1)
    /\ [][ SendStep
           => /\ posts' = posts
              /\ IF last_send'.result = "Accepted"
                 THEN \E s \in Streams \ Started : Started' = Started \cup {s}
                 ELSE Started' = Started ]_vars
C13_Witness ==
    /\ posts = [s \in Streams |-> 1]
    /\ pc[1] = "done"
    /\ Has(rendered[1], "add_message_system")
    /\ rendered[1][1].arg = TimeoutMsg
    /\ pc[2] = "iter"
    /\ last_send.result = "Rejected"

\* the history as send_message left it when it accepted the text of stream
\* s: the turns up to the s-th user turn
UserTurns(i) ==
    Cardinality({j \in 1..i : conversation_history[j].role = "user"})
HistoryAsOf(s) ==
    LET i == CHOOSE k \in 1..Len(conversation_history) :
                 /\ conversation_history[k].role = "user"
                 /\ UserTurns(k) = s
    IN  SubSeq(conversation_history, 1, i)

\* C14: the request of a submission carries the history as of that
\* submission: the earlier turns, then the new user turn, and nothing else.
C14_RequestCarriesHistoryAtSubmit ==
    [][ \A s \in Streams :
          PostStep(s) => Payload.messages = HistoryAsOf(s) ]_vars

\* C15: every accepted submission ends: the thread started for it comes to
\* its end (with a finish or a failure posted), whatever the endpoint sends.
C15_EveryStreamEnds ==
    \A s \in Streams : (pc[s] = "start") ~> (pc[s] = "done")

\* ---------------------------------------------------- the voice loop
\* this step is the turn of the loop of thread v coming to an outcome
OutcomeStep(v, kind) == outcome[v].kind = "none" /\ outcome'[v].kind = kind
\* what this step has posted
Posted == SubSeq(uiq', Len(uiq) + 1, Len(uiq'))
\* this step runs, in the main loop, the callback process_voice_input
VoiceInputStep ==
    /\ uiq # <<>>
    /\ uiq' = Tail(uiq)
    /\ Head(uiq).fn = "process_voice_input"

\* C16: consecutive_errors never exceeds max_errors.
C16_CountWithinCap ==
    \A v \in Voices : consecutive_errors[v] <= max_errors

C18_ForwardedIffTwoChars ==
    [][ /\ \A v \in Voices :
             OutcomeStep(v, "text")
             => LET text == outcome'[v].text
                IN  IF Strip(text) # <<>>
                    THEN /\ Posted = <<Call("process_voice_input", text, 0)>>
                         /\ vpc'[v] = "backoff"
                    ELSE /\ Posted = <<>>
                         /\ vpc'[v] = "check"
        /\ VoiceInputStep
             => LET text == Strip(Head(uiq).arg)
                IN  IF Len(text) >= 2
                    THEN /\ last_send' = [text |-> text, result |-> "Accepted"]
                         /\ conversation_history' =
                                Append(conversation_history, UserTurn(text))
                         /\ Cardinality(Started') = Cardinality(Started) + 1
                    ELSE UNCHANGED <<conversation_history, pc, posts,
                                     rendered, last_send, input_field>> ]_vars
C18_Witness ==
    /\ last_send = [text |-> ok, result |-> "Accepted"]
    /\ conversation_history = <<UserTurn(ok)>>
    /\ rendered[0] = << Call("add_message_user", <<"(mic) ">> \o ok, 0),
                        Call("update_status", VoiceCaptured, 0),
                        Call("add_message_user", ok, 0),
                        Call("update_status", Thinking, 0) >>
    /\ pc[1] = "start"
    /\ \E v \in Voices : outcome[v] = Outcome("text", ok) /\ vpc[v] = "check"

\* C19 as claimed: after recognize_google has returned, whatever the text,
\* the counter is 0.
C19_AnyTextResets ==
    [][ \A v \in Voices :
          OutcomeStep(v, "text") => consecutive_errors'[v] = 0 ]_vars

\* C19: after recognize_google has returned text with a visible character
\* the counter is 0; blank text leaves the counter as it was.
C19_VisibleTextResets ==
    [][ \A v \in Voices :
          OutcomeStep(v, "text")
          => consecutive_errors'[v] =
                IF Strip(outcome'[v].text) # <<>>
                THEN 0
                ELSE consecutive_errors[v] ]_vars
C19_Witness ==
    \E v \in Voices :
        /\ outcome[v] = Outcome("text", <<" ">>)
        /\ consecutive_errors[v] = 2
        /\ vpc[v] = "check"

\* C20: a turn of the loop begins only with is_listening true; stop_listening
\* leaves a capture in progress alone; and once is_listening is false the
\* thread ends, unless listening is started again.
C20_StopEndsLoop ==
    /\ [][ /\ \A v \in Voices :
                (vpc[v] # "enter" /\ vpc'[v] = "enter") => is_listening
           /\ (is_listening /\ ~is_listening')
                => UNCHANGED <<vpc, mic>> ]_vars
    /\ \A v \in Voices :
           (~is_listening /\ vpc[v] # "idle")
              ~> (vpc[v] = "idle" \/ is_listening)
C20_Witness ==
    /\ ~is_listening
    /\ vpc[1] = "listen"
    /\ mic = 1

\* C21: at most one listen_continuously thread runs at any time, whatever
\* the sequence of starts and stops.
C21_OneVoiceLoop == Cardinality(VoiceRunning) <= 1

\* C22: the microphone is held only by a listen_continuously thread that is
\* inside recognizer.listen, and is free when recognition starts; the main
\* loop never holds it.
C22_MicrophoneOfCapture ==
    /\ mic # UI
    /\ \A v \in Voices : mic = v => vpc[v] = "listen"
    /\ \A v \in Voices : vpc[v] = "recog" => mic # v

\* no capture attempt of the turns under way has returned audio or timed
\* out waiting for speech, and no recalibration has succeeded
DeviceGone ==
    \A v \in Voices :
        /\ vpc[v] # "recog"
        /\ outcome[v].kind \in {"none", "error"}
        /\ recal[v] # "ok"

\* C23: if from some point on every capture attempt and every recalibration
\* fails, then again and again the voice loop is stopped: no thread runs and
\* is_listening is false.
C23_DeviceGoneStops ==
    <>[]DeviceGone => []<>(VoiceRunning = {} /\ ~is_listening)

\* the outcomes of a turn that the loop takes as normal
Transient == {"timeout", "unintelligible", "service"}

\* C24: a capture timeout, an unintelligible capture and an error of the
\* recognition service leave the thread running and is_listening as it is,
\* and after each of them the thread is inside recognizer.listen again,
\* unless listening is stopped.
C24_TransientGoesOn ==
    /\ [][ \A v \in Voices :
              (\E kind \in Transient : OutcomeStep(v, kind))
              => /\ vpc'[v] \in {"check", "backoff"}
                 /\ is_listening' = is_listening ]_vars
    /\ \A v \in Voices :
           (outcome[v].kind \in Transient /\ is_listening)
              ~> (vpc[v] = "listen" \/ ~is_listening)
C24_Witness ==
    \E v \in Voices :
        /\ vpc[v] = "listen"
        /\ mic = v
        /\ consecutive_errors[v] = 2
        /\ uiq = <<Status(ApiErrorMsg)>>

\* C25: an unintelligible capture adds one to the counter and posts nothing
\* while the counter stays below max_errors; when the counter comes to
\* max_errors the step posts the one status "speak louder or clearer" and
\* sets the counter to 0; either way the thread goes on to the next turn.
C25_UnintelligibleHint ==
    [][ \A v \in Voices :
          OutcomeStep(v, "unintelligible")
          => LET n == consecutive_errors[v] + 1
             IN  /\ vpc'[v] = "check"
                 /\ is_listening' = is_listening
                 /\ IF n >= max_errors
                    THEN /\ Posted = <<Status(SpeakLouder)>>
                         /\ consecutive_errors'[v] = 0
                    ELSE /\ Posted = <<>>
                         /\ consecutive_errors'[v] = n ]_vars
C25_Witness ==
    \E v \in Voices :
        /\ outcome[v].kind = "unintelligible"
        /\ consecutive_errors[v] = 0
        /\ uiq # <<>>
        /\ uiq[Len(uiq)] = Status(SpeakLouder)

\* the turns of history with role r
TurnsOf(history, r) == SelectSeq(history, LAMBDA turn : turn.role = r)

\* C26: a step that changes the history appends one turn to it and leaves
\* the turns it held as they were; the step is either an accepted
\* send_message, which appends the user turn of the stripped text, or the
\* end of a stream that did not fail and has text, which appends the
\* assistant turn of that text.
C26_HistoryAppendOnly ==
    [][ conversation_history' # conversation_history
        => \/ /\ SendStep
              /\ last_send'.result = "Accepted"
              /\ conversation_history' =
                     Append(conversation_history,
                            UserTurn(Strip(Get(last_send'.text))))
           \/ \E s \in Streams :
                 /\ FinishStep(s)
                 /\ full_response[s] # <<>>
                 /\ conversation_history' =
                        Append(conversation_history,
                               AssistantTurn(full_response[s])) ]_vars
C26_Witness ==
    /\ conversation_history =
           << UserTurn(hello), AssistantTurn(Hi), UserTurn(hello) >>
    /\ last_send.result = "Rejected"
    /\ \E s \in Streams : pc[s] = "done" /\ Has(rendered[s], "add_message_system")

\* C27: the step after the read loop appends an assistant turn only when
\* the thread has read a unit with done true.
C27_TurnOnlyAfterDone ==
    [][ \A s \in Streams :
          (FinishStep(s) /\ conversation_history' # conversation_history)
          => done_unit[s] # NoUnit ]_vars

\* C28: every turn of the history has content; the content of a user turn
\* has no whitespace at either end; and the history never holds more
\* assistant turns than user turns.
C28_TurnsHaveContent ==
    /\ \A i \in 1..Len(conversation_history) :
           LET turn == conversation_history[i]
           IN  /\ turn.content # <<>>
               /\ turn.role = "user"
                    => /\ Head(turn.content) \notin Whitespace
                       /\ turn.content[Len(turn.content)] \notin Whitespace
    /\ Len(TurnsOf(conversation_history, "assistant"))
           <= Len(TurnsOf(conversation_history, "user"))
C28_Witness ==
    /\ Fns(rendered[1]) = << "start_streaming_message", "update_status",
                             "add_message_system" >>
    /\ conversation_history =
           << UserTurn(hello), UserTurn(hello), AssistantTurn(Hi \o There) >>
    /\ last_send.text = hello \o <<" ">>

====
